---- MODULE Spec2Model ----
(***************************************************************************)
(* A model of nova's conductor manager (nova/conductor/manager.py): the    *)
(* facade through which compute workers reach the database.                *)
(*                                                                         *)
(* State: the tables of the store the modelled operations touch, and the   *)
(* frame of the invocation in progress (what it was asked, which store     *)
(* requests it issued, which notifications it sent, what it answered).     *)
(* One action per facade operation models the whole handler; Return        *)
(* delivers the answer and discards the frame (the manager keeps nothing   *)
(* between calls).                                                         *)
(*                                                                         *)
(* Python values are records [ty, v]: ty is the Python type, v the value   *)
(* written as a string.                                                    *)
(***************************************************************************)
EXTENDS Integers, Sequences, FiniteSets, TLC

VARIABLES instances, bdms, bw_usages, agg_metadata, migrations, hosts, pc, call

vars == <<instances, bdms, bw_usages, agg_metadata, migrations, hosts, pc, call>>

store == <<instances, bdms, bw_usages, agg_metadata, migrations, hosts>>

\* ------------------------------------------------------------------ bounds

\* The longest update set handed to instance_update.
MaxKeys == 2

\* ------------------------------------------------------------------ values

None == [ty |-> "NoneType", v |-> ""]

Str(x) == [ty |-> "str", v |-> x]

Num(x) == [ty |-> "int", v |-> x]

IsNone(x) == x.ty = "NoneType"

StrGoodTime == [ty |-> "str", v |-> "2012-10-29T13:42:11.000000"]

StrBadTime == [ty |-> "str", v |-> "yesterday"]

DateObj == [ty |-> "datetime", v |-> "2013-01-01T00:00:00.000000"]

\* The values a caller puts in an update set.
UpdateValues == {StrGoodTime, StrBadTime, DateObj}

\* Strings in the format timeutils.parse_strtime reads.
WellFormedTimes == {"2012-10-29T13:42:11.000000", "2013-01-01T00:00:00.000000"}

isinstance_basestring(value) == value.ty = "str"

\* timeutils.parse_strtime: whether strptime accepts the string.
parse_strtime_ok(value) == value.v \in WellFormedTimes

\* timeutils.parse_strtime: the datetime a well-formed string denotes.
parse_strtime(value) == [ty |-> "datetime", v |-> value.v]

\* A store-layer object whose columns are not modelled: the result of the db
\* API function fn.
StoreResult(fn) == [ty |-> "model", v |-> fn]

\* jsonutils.to_primitive on a scalar or an object taken whole: a datetime
\* becomes its strtime string, a store-layer object a dict of primitives.
to_primitive_value(value) ==
    IF value.ty = "datetime" THEN [ty |-> "str", v |-> value.v]
    ELSE IF value.ty = "model" THEN [ty |-> "dict", v |-> value.v]
    ELSE value

\* jsonutils.to_primitive: a scalar as above, a model object (a row) as the
\* dict of its primitive columns.
to_primitive(ref) ==
    IF "ty" \in DOMAIN ref THEN to_primitive_value(ref)
    ELSE [f \in DOMAIN ref |-> to_primitive_value(ref[f])]

\* ---------------------------------------------------------- the whitelist

allowed_updates ==
    {"task_state", "vm_state", "expected_task_state", "power_state",
     "access_ip_v4", "access_ip_v6", "launched_at", "terminated_at",
     "host", "node", "memory_mb", "vcpus", "root_gb", "ephemeral_gb",
     "instance_type_id", "root_device_name", "launched_on", "progress",
     "vm_mode", "default_ephemeral_device", "default_swap_device"}

\* A variant that forgets terminated_at.
datetime_fields_launched_only == {"launched_at"}

datetime_fields == {"launched_at", "terminated_at"}

\* The keys callers send: allowed ones, a column that is not allowed, and an
\* allowed name written with other case and surrounding blanks.
UpdateKeys == {"vm_state", "launched_at", "terminated_at", "id", " VM_State "}

\* str.strip().lower() on the keys and values callers send.
strip_lower(key) ==
    CASE key = " VM_State " -> "vm_state"
      [] key = " Status " -> "status"
      [] key = " Enable " -> "enable"
      [] OTHER -> key

\* Variants of the membership test: none at all, and one on the key trimmed
\* and lower-cased.
KeyAllowedAny(key) == TRUE

KeyAllowedNormalised(key) == strip_lower(key) \in allowed_updates

\* instance_update's membership test: `key not in allowed_updates`.
KeyAllowed(key) == key \in allowed_updates

\* An update set in the order the dict iterates: pairs <<key, value>> with
\* distinct keys.
IsUpdateSet(s) == \A i, j \in 1..Len(s) : i # j => s[i][1] # s[j][1]

UpdateSets ==
    UNION {{s \in [1..n -> UpdateKeys \X UpdateValues] : IsUpdateSet(s)} :
           n \in 0..MaxKeys}

\* The loop of instance_update over updates.iteritems(), from position i:
\* the exception it raises ("none" when it completes) and the dict as the
\* loop left it.
RECURSIVE ValidateFrom(_, _)
ValidateFrom(updates, i) ==
    IF i > Len(updates) THEN [exc |-> "none", updates |-> updates]
    ELSE LET key == updates[i][1]
             value == updates[i][2]
         IN  IF ~KeyAllowed(key)
             THEN [exc |-> "KeyError", updates |-> updates]
             ELSE IF key \in datetime_fields /\ isinstance_basestring(value)
                  THEN IF parse_strtime_ok(value)
                       THEN ValidateFrom(
                                [updates EXCEPT ![i] = <<key, parse_strtime(value)>>],
                                i + 1)
                       ELSE [exc |-> "ValueError", updates |-> updates]
                  ELSE ValidateFrom(updates, i + 1)

Validate(updates) == ValidateFrom(updates, 1)

\* The dict an iteration order stands for.
AsDict(updates) ==
    [k \in {updates[i][1] : i \in 1..Len(updates)} |->
        (CHOOSE p \in {updates[i] : i \in 1..Len(updates)} : p[1] = k)[2]]

\* -------------------------------------------------------------- exceptions

\* The failures the database layer raises: the kinds the handlers declare,
\* and one no handler declares.
StoreFaults ==
    {"InstanceNotFound", "InvalidUUID", "UnexpectedTaskStateError",
     "MigrationNotFound", "AggregateHostExists", "AggregateHostNotFound",
     "AggregateNotFound", "AggregateMetadataNotFound", "DBError"}

FaultChoices == {"none"} \cup StoreFaults

\* The store as the specifications of one table let it behave: it answers, or
\* fails in a way no handler declares.
FamilyFaults == {"none", "DBError"}

\* The exceptions each handler's @rpc_common.client_exceptions declares.
client_exceptions(op) ==
    CASE op = "instance_update" ->
             {"KeyError", "ValueError", "InvalidUUID", "InstanceNotFound",
              "UnexpectedTaskStateError"}
      [] op \in {"instance_get", "instance_get_by_uuid"} -> {"InstanceNotFound"}
      [] op \in {"migration_get", "migration_update"} -> {"MigrationNotFound"}
      [] op = "aggregate_host_add" -> {"AggregateHostExists"}
      [] op = "aggregate_host_delete" -> {"AggregateHostNotFound"}
      [] op = "aggregate_get" -> {"AggregateNotFound"}
      [] op = "aggregate_metadata_delete" -> {"AggregateMetadataNotFound"}
      [] OTHER -> {}

\* The translation layer around a handler: a declared kind crosses the
\* boundary as it is, any other kind as an opaque internal error.
translate(op, exc) ==
    IF exc \in client_exceptions(op) THEN exc ELSE "InternalError"

\* The error taxonomy: the kind of each exception a caller can see.
ErrorKind(exc) ==
    CASE exc \in {"KeyError", "ValueError", "Invalid", "InvalidUUID"} -> "InvalidArgument"
      [] exc \in {"InstanceNotFound", "MigrationNotFound", "AggregateNotFound",
                  "AggregateHostNotFound", "AggregateMetadataNotFound"} -> "NotFound"
      [] exc \in {"AggregateHostExists", "UnexpectedTaskStateError"} -> "Conflict"
      [] OTHER -> "InternalError"

\* ------------------------------------------------------ the invocation frame

NoOutcome == [status |-> "none", exc |-> "none", value |-> None]

\* A handler's `return value`.
Returned(value) == [status |-> "ok", exc |-> "none", value |-> value]

\* A handler's own `raise`.
Raised(exc) == [status |-> "error", exc |-> exc, value |-> None]

\* A variant that catches the store's exception and returns None.
StoreRaisedSwallowed(op, exc) == Returned(None)

\* A store call that raises inside a handler: no handler catches, so the
\* exception leaves it through the translation layer.
StoreRaised(op, exc) == Raised(translate(op, exc))

NoCall ==
    [op |-> "none", args |-> <<>>, fault |-> "none", trace |-> <<>>,
     reqs |-> <<>>, notes |-> <<>>, outcome |-> NoOutcome, pre |-> <<>>,
     foreign |-> 0]

\* A store request: the db API function and its arguments.
Req(fn, a) == [fn |-> fn, args |-> a]

\* The frame of a finished invocation: the operation and its arguments, the
\* failure the store raised, the handler's steps, its store requests and
\* notifications in order, its answer, the store as the invocation found it,
\* and the number of other callers' store requests served between two of its
\* own.
Frame(op, a, fault, trace, reqs, notes, outcome) ==
    [op |-> op, args |-> a, fault |-> fault, trace |-> trace, reqs |-> reqs,
     notes |-> notes, outcome |-> outcome, pre |-> store, foreign |-> 0]

\* ------------------------------------------------------------- instances

InstanceUuids == {"u1", "u2"}

InstanceFields == {"vm_state", "launched_at", "terminated_at"}

\* db.instance_update_and_get_original: the row before and after the update,
\* as one store request; InstanceNotFound when no row has the uuid.
db_instance_update_and_get_original(instance_uuid, values, fault) ==
    IF fault # "none" THEN [exc |-> fault, old |-> <<>>, new |-> <<>>]
    ELSE IF instance_uuid \notin DOMAIN instances
    THEN [exc |-> "InstanceNotFound", old |-> <<>>, new |-> <<>>]
    ELSE LET old == instances[instance_uuid]
         IN  [exc |-> "none", old |-> old,
              new |-> [f \in DOMAIN old \cup DOMAIN values |->
                          IF f \in DOMAIN values THEN values[f] ELSE old[f]]]

\* A variant that passes the new row in both places.
send_update_new_twice(old_ref, instance_ref) ==
    <<[old |-> instance_ref, new |-> instance_ref]>>

\* notifications.send_update(context, old_ref, instance_ref)
send_update(old_ref, instance_ref) ==
    <<[old |-> old_ref, new |-> instance_ref]>>

\* ConductorManager.instance_update
instance_update(instance_uuid, updates, fault) ==
    /\ pc = "idle"
    /\ pc' = "done"
    /\ UNCHANGED <<bdms, bw_usages, agg_metadata, migrations, hosts>>
    /\ LET a == <<instance_uuid, updates>>
           checked == Validate(updates)
           values == AsDict(checked.updates)
           r == db_instance_update_and_get_original(instance_uuid, values, fault)
           req == Req("instance_update_and_get_original", <<instance_uuid, values>>)
       IN  IF checked.exc # "none"
           THEN /\ call' = Frame("instance_update", a, "none", <<"validate">>,
                                 <<>>, <<>>, Raised(checked.exc))
                /\ UNCHANGED instances
           ELSE IF r.exc # "none"
           THEN /\ call' = Frame("instance_update", a, r.exc,
                                 <<"validate", "store">>, <<req>>, <<>>,
                                 StoreRaised("instance_update", r.exc))
                /\ UNCHANGED instances
           ELSE /\ instances' = [instances EXCEPT ![instance_uuid] = r.new]
                /\ call' = Frame("instance_update", a, "none",
                                 <<"validate", "store", "notify", "return">>,
                                 <<req>>, send_update(r.old, r.new),
                                 Returned(to_primitive(r.new)))

\* The answer reaches the caller; the manager keeps nothing of the call.
Return ==
    /\ pc = "done"
    /\ pc' = "idle"
    /\ call' = NoCall
    /\ UNCHANGED store

\* -------------------------------------------------- block device mappings

\* The rows the block_device_mapping table can hold.
MaxBdms == 3

BdmIds == 1..MaxBdms

\* Row i: rows 1 and 2 attach the same volume of the same instance, rows 1
\* and 3 sit under the same device name.
BdmRow(i) ==
    [id |-> i,
     instance_uuid |-> IF i <= 3 THEN "u1" ELSE "u2",
     volume_id |-> IF i % 3 = 0 THEN "v2" ELSE "v1",
     device_name |-> IF i % 2 = 0 THEN "d2" ELSE "d1"]

BdmRows == {BdmRow(i) : i \in BdmIds}

NoList == [ty |-> "NoneType", ids |-> <<>>]

\* The ids of a set of rows as a list, in ascending order.
RECURSIVE ListOf(_)
ListOf(S) ==
    IF S = {} THEN <<>>
    ELSE LET m == CHOOSE x \in S : \A y \in S : x <= y
         IN  <<m>> \o ListOf(S \ {m})

\* bdms: absent, or a list of mappings (each used for its 'id' alone): any
\* selection of rows, in ascending order of id, the empty list included.
BdmListArgs ==
    {NoList} \cup {[ty |-> "list", ids |-> ListOf(S)] : S \in SUBSET BdmIds}

\* instance: absent, or an instance (used for its 'uuid' alone).
InstanceArgs == {None, [ty |-> "dict", v |-> "u1"], [ty |-> "dict", v |-> "u2"]}

VolumeArgs == {None, Str("v1"), Str("v2")}

DeviceArgs == {None, Str("d1"), Str("d2")}

\* db.block_device_mapping_destroy(context, bdm_id)
db_bdm_destroy(table, id) == {r \in table : r.id # id}

\* db.block_device_mapping_destroy_by_instance_and_volume
db_bdm_destroy_by_instance_and_volume(table, uuid, volume_id) ==
    {r \in table : ~(r.instance_uuid = uuid /\ r.volume_id = volume_id)}

\* db.block_device_mapping_destroy_by_instance_and_device
db_bdm_destroy_by_instance_and_device(table, uuid, device_name) ==
    {r \in table : ~(r.instance_uuid = uuid /\ r.device_name = device_name)}

\* `for bdm in bdms: self.db.block_device_mapping_destroy(context, bdm['id'])`
\* from position i: one store request per mapping; the request at position
\* failAt raises `fault`, which ends the loop with the earlier rows deleted.
RECURSIVE DestroyEach(_, _, _, _, _, _)
DestroyEach(ids, i, table, reqs, fault, failAt) ==
    IF i > Len(ids) THEN [exc |-> "none", table |-> table, reqs |-> reqs]
    ELSE LET req == Req("block_device_mapping_destroy", <<ids[i]>>)
         IN  IF fault # "none" /\ failAt = i
             THEN [exc |-> fault, table |-> table, reqs |-> Append(reqs, req)]
             ELSE DestroyEach(ids, i + 1, db_bdm_destroy(table, ids[i]),
                              Append(reqs, req), fault, failAt)

\* A variant of the chain that looks at the list last.
BdmSelectListLast(b, instance, volume_id, device_name) ==
    IF ~IsNone(instance) /\ ~IsNone(volume_id) THEN "volume"
    ELSE IF ~IsNone(instance) /\ ~IsNone(device_name) THEN "device"
    ELSE IF ~IsNone(b) THEN "list"
    ELSE "invalid"

\* The if/elif chain of block_device_mapping_destroy: the branch taken.
BdmSelect(b, instance, volume_id, device_name) ==
    IF ~IsNone(b) THEN "list"
    ELSE IF ~IsNone(instance) /\ ~IsNone(volume_id) THEN "volume"
    ELSE IF ~IsNone(instance) /\ ~IsNone(device_name) THEN "device"
    ELSE "invalid"

\* ConductorManager.block_device_mapping_destroy
block_device_mapping_destroy(b, instance, volume_id, device_name, fault, failAt) ==
    /\ pc = "idle"
    /\ pc' = "done"
    /\ UNCHANGED <<instances, bw_usages, agg_metadata, migrations, hosts>>
    /\ LET a == [bdms |-> b, instance |-> instance, volume_id |-> volume_id,
                 device_name |-> device_name]
           branch == BdmSelect(b, instance, volume_id, device_name)
           each == DestroyEach(b.ids, 1, bdms, <<>>, fault, failAt)
           one == IF branch = "volume"
                  THEN [req |-> Req("block_device_mapping_destroy_by_instance_and_volume",
                                    <<instance.v, volume_id.v>>),
                        table |-> db_bdm_destroy_by_instance_and_volume(
                                      bdms, instance.v, volume_id.v)]
                  ELSE [req |-> Req("block_device_mapping_destroy_by_instance_and_device",
                                    <<instance.v, device_name.v>>),
                        table |-> db_bdm_destroy_by_instance_and_device(
                                      bdms, instance.v, device_name.v)]
       IN  IF branch = "invalid"
           THEN /\ bdms' = bdms
                /\ call' = Frame("block_device_mapping_destroy", a, "none",
                                 <<"validate">>, <<>>, <<>>, Raised("Invalid"))
           ELSE IF branch = "list"
           THEN /\ bdms' = each.table
                /\ call' = Frame("block_device_mapping_destroy", a, each.exc,
                                 <<"store", "return">>, each.reqs, <<>>,
                                 IF each.exc = "none" THEN Returned(None)
                                 ELSE StoreRaised("block_device_mapping_destroy", each.exc))
           ELSE IF fault # "none" /\ failAt = 1
           THEN /\ bdms' = bdms
                /\ call' = Frame("block_device_mapping_destroy", a, fault,
                                 <<"store">>, <<one.req>>, <<>>,
                                 StoreRaised("block_device_mapping_destroy", fault))
           ELSE /\ bdms' = one.table
                /\ call' = Frame("block_device_mapping_destroy", a, "none",
                                 <<"store", "return">>, <<one.req>>, <<>>,
                                 Returned(None))

\* Python's None, True and False as the `create` argument.
CreateArgs == {"None", "True", "False"}

\* db.block_device_mapping_update_or_create, _create and _update: the row is
\* written (an update changes a row only if it is there).
db_bdm_write(table, fn, row) ==
    IF fn = "block_device_mapping_update"
    THEN (IF \E r \in table : r.id = row.id
          THEN {r \in table : r.id # row.id} \cup {row} ELSE table)
    ELSE {r \in table : r.id # row.id} \cup {row}

\* ConductorManager.block_device_mapping_update_or_create
block_device_mapping_update_or_create(values, create, fault) ==
    /\ pc = "idle"
    /\ pc' = "done"
    /\ UNCHANGED <<instances, bw_usages, agg_metadata, migrations, hosts>>
    /\ LET fn == IF create = "None" THEN "block_device_mapping_update_or_create"
                 ELSE IF create = "True" THEN "block_device_mapping_create"
                 ELSE "block_device_mapping_update"
           req == Req(fn, IF fn = "block_device_mapping_update"
                          THEN <<values.id, values>> ELSE <<values>>)
           a == [values |-> values, create |-> create]
       IN  IF fault # "none"
           THEN /\ bdms' = bdms
                /\ call' = Frame("block_device_mapping_update_or_create", a, fault,
                                 <<"store">>, <<req>>, <<>>,
                                 StoreRaised("block_device_mapping_update_or_create", fault))
           ELSE /\ bdms' = db_bdm_write(bdms, fn, values)
                /\ call' = Frame("block_device_mapping_update_or_create", a, "none",
                                 <<"store", "return">>, <<req>>, <<>>, Returned(None))

\* -------------------------------------------------------- bandwidth usage

\* A counter argument: absent, or a number (0 is a number).
CounterArgs == {None, Num("0")}

RefreshedArgs == {None, Str("t1")}

BwMacs == {"m1", "m2"}

\* The key of a reading: <<uuid, start_period, mac>>.
BwKey(uuid, start_period, mac) == <<uuid, start_period, mac>>

\* db.bw_usage_update(context, uuid, mac, start_period, bw_in, bw_out,
\* last_ctr_in, last_ctr_out, last_refreshed): the row of the key is set to
\* the values given (created when missing); an absent last_refreshed is the
\* time of the write.
db_bw_usage_update(table, uuid, mac, start_period, bw_in, bw_out, last_ctr_in, last_ctr_out, last_refreshed) ==
    LET key == BwKey(uuid, start_period, mac)
        row == [bw_in |-> bw_in, bw_out |-> bw_out, last_ctr_in |-> last_ctr_in,
                last_ctr_out |-> last_ctr_out,
                last_refreshed |-> IF IsNone(last_refreshed) THEN Str("now")
                                   ELSE last_refreshed]
    IN  [k \in DOMAIN table \cup {key} |-> IF k = key THEN row ELSE table[k]]

\* db.bw_usage_get(context, uuid, start_period, mac): the row, or None.
db_bw_usage_get(table, uuid, start_period, mac) ==
    IF BwKey(uuid, start_period, mac) \in DOMAIN table
    THEN table[BwKey(uuid, start_period, mac)] ELSE None

\* A variant that tests the counters for truth, so that 0 counts as absent.
ShouldWriteIfTruthy(bw_in, bw_out, last_ctr_in, last_ctr_out) ==
    \E x \in {bw_in, bw_out, last_ctr_in, last_ctr_out} : ~IsNone(x) /\ x.v # "0"

\* `[bw_in, bw_out, last_ctr_in, last_ctr_out].count(None) != 4`
ShouldWrite(bw_in, bw_out, last_ctr_in, last_ctr_out) ==
    ~(IsNone(bw_in) /\ IsNone(bw_out) /\ IsNone(last_ctr_in) /\ IsNone(last_ctr_out))

\* What another caller's bw_usage_update writes under the same key.
ForeignRow ==
    [bw_in |-> Num("9"), bw_out |-> Num("9"), last_ctr_in |-> Num("9"),
     last_ctr_out |-> Num("9"), last_refreshed |-> Str("now")]

\* ConductorManager.bw_usage_update. The write and the read are two store
\* requests: `foreign` is the number (0 or 1) of writes of another caller the
\* store serves between them; the request at position failAt raises `fault`.
bw_usage_update(uuid, mac, start_period, bw_in, bw_out, last_ctr_in, last_ctr_out, last_refreshed, fault, failAt, foreign) ==
    /\ pc = "idle"
    /\ pc' = "done"
    /\ UNCHANGED <<instances, bdms, agg_metadata, migrations, hosts>>
    /\ LET a == [uuid |-> uuid, mac |-> mac, start_period |-> start_period,
                 bw_in |-> bw_in, bw_out |-> bw_out, last_ctr_in |-> last_ctr_in,
                 last_ctr_out |-> last_ctr_out, last_refreshed |-> last_refreshed]
           write == ShouldWrite(bw_in, bw_out, last_ctr_in, last_ctr_out)
           wreq == Req("bw_usage_update",
                       <<uuid, mac, start_period, bw_in, bw_out, last_ctr_in,
                         last_ctr_out, last_refreshed>>)
           greq == Req("bw_usage_get", <<uuid, start_period, mac>>)
           written == IF write
                      THEN db_bw_usage_update(bw_usages, uuid, mac, start_period,
                               bw_in, bw_out, last_ctr_in, last_ctr_out,
                               last_refreshed)
                      ELSE bw_usages
           between == IF write /\ foreign = 1
                      THEN [written EXCEPT ![BwKey(uuid, start_period, mac)] = ForeignRow]
                      ELSE written
           getAt == IF write THEN 2 ELSE 1
           usage == db_bw_usage_get(between, uuid, start_period, mac)
       IN  IF write /\ fault # "none" /\ failAt = 1
           THEN /\ bw_usages' = bw_usages
                /\ call' = Frame("bw_usage_update", a, fault, <<"store">>,
                                 <<wreq>>, <<>>, StoreRaised("bw_usage_update", fault))
           ELSE IF fault # "none" /\ failAt = getAt
           THEN /\ bw_usages' = between
                /\ call' = [Frame("bw_usage_update", a, fault, <<"store">>,
                                  IF write THEN <<wreq, greq>> ELSE <<greq>>, <<>>,
                                  StoreRaised("bw_usage_update", fault))
                            EXCEPT !.foreign = IF write THEN foreign ELSE 0]
           ELSE /\ bw_usages' = between
                /\ call' = [Frame("bw_usage_update", a, "none", <<"store", "return">>,
                                  IF write THEN <<wreq, greq>> ELSE <<greq>>, <<>>,
                                  Returned(to_primitive(usage)))
                            EXCEPT !.foreign = IF write THEN foreign ELSE 0]

\* ----------------------------------------------------- aggregate metadata

AggregateIds == {1, 2}

MetadataKeys == {"a", "b"}

MetadataValues == {Str("0"), Str("1"), Str("2")}

\* The metadata mappings a caller supplies: some keys, each with a value.
MetadataArgs == UNION {[ks -> MetadataValues] : ks \in SUBSET MetadataKeys}

\* Python's True and False, and "absent" for an argument left out.
SetDeleteArgs == {"absent", "True", "False"}

\* db.aggregate_metadata_add(context, aggregate_id, metadata, set_delete):
\* AggregateNotFound when there is no such aggregate; with set_delete the
\* keys not in `metadata` are removed, without it they stay; the keys of
\* `metadata` take its values; the metadata given is returned.
db_aggregate_metadata_add(table, aggregate_id, metadata, set_delete, fault) ==
    IF fault # "none" THEN [exc |-> fault, table |-> table]
    ELSE IF aggregate_id \notin DOMAIN table
    THEN [exc |-> "AggregateNotFound", table |-> table]
    ELSE LET old == table[aggregate_id]
             keys == IF set_delete = "True" THEN DOMAIN metadata
                     ELSE DOMAIN old \cup DOMAIN metadata
         IN  [exc |-> "none",
              table |-> [table EXCEPT ![aggregate_id] =
                            [k \in keys |-> IF k \in DOMAIN metadata
                                            THEN metadata[k] ELSE old[k]]]]

\* A variant that does not pass the flag on.
SetDeleteDropped(set_delete) == "False"

\* `set_delete=False` in the signature, and the flag as passed on.
SetDeleteForwarded(set_delete) ==
    IF set_delete = "absent" THEN "False" ELSE set_delete

\* ConductorManager.aggregate_metadata_add
aggregate_metadata_add(aggregate_id, metadata, set_delete, fault) ==
    /\ pc = "idle"
    /\ pc' = "done"
    /\ UNCHANGED <<instances, bdms, bw_usages, migrations, hosts>>
    /\ LET a == [aggregate |-> aggregate_id, metadata |-> metadata,
                 set_delete |-> set_delete]
           flag == SetDeleteForwarded(set_delete)
           req == Req("aggregate_metadata_add", <<aggregate_id, metadata, flag>>)
           r == db_aggregate_metadata_add(agg_metadata, aggregate_id, metadata,
                                          flag, fault)
       IN  IF r.exc # "none"
           THEN /\ agg_metadata' = agg_metadata
                /\ call' = Frame("aggregate_metadata_add", a, r.exc, <<"store">>,
                                 <<req>>, <<>>,
                                 StoreRaised("aggregate_metadata_add", r.exc))
           ELSE /\ agg_metadata' = r.table
                /\ call' = Frame("aggregate_metadata_add", a, "none",
                                 <<"store", "return">>, <<req>>, <<>>,
                                 Returned(to_primitive(metadata)))

\* ------------------------------------------------------ service directory

TopicArgs == {None, Str(""), Str("compute"), Str("network")}

HostArgs == {None, Str(""), Str("h1")}

\* Python truth of an optional string: None and '' are false.
Truthy(x) == ~IsNone(x) /\ x.v # ""

\* A variant of the chain that tests the single filters first.
ServiceQuerySingleFilterFirst(topic, host) ==
    IF ~(Truthy(topic) \/ Truthy(host)) THEN Req("service_get_all", <<>>)
    ELSE IF Truthy(topic) THEN Req("service_get_all_by_topic", <<topic.v>>)
    ELSE IF Truthy(host) THEN Req("service_get_all_by_host", <<host.v>>)
    ELSE IF topic.v = "compute"
    THEN Req("service_get_all_compute_by_host", <<host.v>>)
    ELSE Req("service_get_by_host_and_topic", <<host.v, topic.v>>)

\* The if/elif chain of service_get_all_by: the store query it selects.
ServiceQuery(topic, host) ==
    IF ~(Truthy(topic) \/ Truthy(host)) THEN Req("service_get_all", <<>>)
    ELSE IF Truthy(topic) /\ Truthy(host)
    THEN (IF topic.v = "compute"
          THEN Req("service_get_all_compute_by_host", <<host.v>>)
          ELSE Req("service_get_by_host_and_topic", <<host.v, topic.v>>))
    ELSE IF Truthy(topic) THEN Req("service_get_all_by_topic", <<topic.v>>)
    ELSE Req("service_get_all_by_host", <<host.v>>)

\* ConductorManager.service_get_all_by
service_get_all_by(topic, host, fault) ==
    /\ pc = "idle"
    /\ pc' = "done"
    /\ UNCHANGED store
    /\ LET a == [topic |-> topic, host |-> host]
           req == ServiceQuery(topic, host)
       IN  IF fault # "none"
           THEN call' = Frame("service_get_all_by", a, fault, <<"store">>, <<req>>,
                              <<>>, StoreRaised("service_get_all_by", fault))
           ELSE call' = Frame("service_get_all_by", a, "none", <<"store", "return">>,
                              <<req>>, <<>>,
                              Returned(to_primitive(StoreResult(req.fn))))

\* ------------------------------------------------- the pass-through handlers

\* The handlers that make one store call and hand its result on: the db API
\* function each calls, and what each returns: the result through
\* to_primitive, the result as the store gave it ("raw"), or nothing.
PassThrough ==
    [instance_get |-> [fn |-> "instance_get", ret |-> "primitive"],
     instance_get_by_uuid |-> [fn |-> "instance_get_by_uuid", ret |-> "primitive"],
     instance_get_all |-> [fn |-> "instance_get_all", ret |-> "primitive"],
     instance_get_all_by_host |-> [fn |-> "instance_get_all_by_host", ret |-> "primitive"],
     migration_get |-> [fn |-> "migration_get", ret |-> "primitive"],
     migration_get_unconfirmed_by_dest_compute |->
         [fn |-> "migration_get_unconfirmed_by_dest_compute", ret |-> "primitive"],
     aggregate_host_add |-> [fn |-> "aggregate_host_add", ret |-> "primitive"],
     aggregate_host_delete |-> [fn |-> "aggregate_host_delete", ret |-> "void"],
     aggregate_get |-> [fn |-> "aggregate_get", ret |-> "primitive"],
     aggregate_get_by_host |-> [fn |-> "aggregate_get_by_host", ret |-> "primitive"],
     security_group_get_by_instance |->
         [fn |-> "security_group_get_by_instance", ret |-> "primitive"],
     security_group_rule_get_by_security_group |->
         [fn |-> "security_group_rule_get_by_security_group", ret |-> "primitive"],
     provider_fw_rule_get_all |-> [fn |-> "provider_fw_rule_get_all", ret |-> "primitive"],
     agent_build_get_by_triple |-> [fn |-> "agent_build_get_by_triple", ret |-> "primitive"],
     block_device_mapping_get_all_by_instance |->
         [fn |-> "block_device_mapping_get_all_by_instance", ret |-> "primitive"],
     instance_get_all_by_filters |->
         [fn |-> "instance_get_all_by_filters", ret |-> "primitive"],
     instance_get_all_hung_in_rebooting |->
         [fn |-> "instance_get_all_hung_in_rebooting", ret |-> "primitive"],
     instance_get_active_by_window |->
         [fn |-> "instance_get_active_by_window_joined", ret |-> "primitive"],
     instance_info_cache_delete |-> [fn |-> "instance_info_cache_delete", ret |-> "void"],
     instance_info_cache_update |-> [fn |-> "instance_info_cache_update", ret |-> "void"],
     instance_type_get |-> [fn |-> "instance_type_get", ret |-> "primitive"],
     vol_get_usage_by_time |-> [fn |-> "vol_get_usage_by_time", ret |-> "primitive"],
     vol_usage_update |-> [fn |-> "vol_usage_update", ret |-> "void"],
     action_event_start |-> [fn |-> "action_event_start", ret |-> "raw"],
     action_event_finish |-> [fn |-> "action_event_finish", ret |-> "raw"]]

PassThroughOps == DOMAIN PassThrough

\* A pass-through handler: `return jsonutils.to_primitive(self.db.fn(...))`,
\* `return self.db.fn(...)` or `self.db.fn(...)`. The tables these functions
\* read and write are not among the modelled ones.
pass_through(op, fault) ==
    /\ pc = "idle"
    /\ pc' = "done"
    /\ UNCHANGED store
    /\ LET h == PassThrough[op]
           req == Req(h.fn, <<>>)
       IN  IF fault # "none"
           THEN call' = Frame(op, <<>>, fault, <<"store">>, <<req>>, <<>>,
                              StoreRaised(op, fault))
           ELSE call' = Frame(op, <<>>, "none", <<"store", "return">>, <<req>>, <<>>,
                              Returned(IF h.ret = "primitive"
                                       THEN to_primitive(StoreResult(h.fn))
                                       ELSE IF h.ret = "raw" THEN StoreResult(h.fn)
                                       ELSE None))

\* ConductorManager.ping and get_backdoor_port: no store call.
NoStoreOps == {"ping", "get_backdoor_port"}

no_store(op) ==
    /\ pc = "idle"
    /\ pc' = "done"
    /\ UNCHANGED store
    /\ call' = Frame(op, <<>>, "none", <<"return">>, <<>>, <<>>,
                     Returned(IF op = "ping"
                              THEN to_primitive([ty |-> "dict", v |-> "ping"])
                              ELSE [ty |-> "int", v |-> "backdoor_port"]))

\* ConductorManager.instance_destroy; db.instance_destroy removes the row, or
\* raises InstanceNotFound.
instance_destroy(instance_uuid, fault) ==
    /\ pc = "idle"
    /\ pc' = "done"
    /\ UNCHANGED <<bdms, bw_usages, agg_metadata, migrations, hosts>>
    /\ LET req == Req("instance_destroy", <<instance_uuid>>)
           exc == IF fault # "none" THEN fault
                  ELSE IF instance_uuid \notin DOMAIN instances THEN "InstanceNotFound"
                  ELSE "none"
       IN  IF exc # "none"
           THEN /\ instances' = instances
                /\ call' = Frame("instance_destroy", <<instance_uuid>>, exc, <<"store">>,
                                 <<req>>, <<>>, StoreRaised("instance_destroy", exc))
           ELSE /\ instances' = [u \in DOMAIN instances \ {instance_uuid} |-> instances[u]]
                /\ call' = Frame("instance_destroy", <<instance_uuid>>, "none",
                                 <<"store", "return">>, <<req>>, <<>>, Returned(None))

\* ConductorManager.aggregate_metadata_delete; db.aggregate_metadata_delete
\* removes the key, or raises AggregateMetadataNotFound.
aggregate_metadata_delete(aggregate_id, key, fault) ==
    /\ pc = "idle"
    /\ pc' = "done"
    /\ UNCHANGED <<instances, bdms, bw_usages, migrations, hosts>>
    /\ LET req == Req("aggregate_metadata_delete", <<aggregate_id, key>>)
           exc == IF fault # "none" THEN fault
                  ELSE IF aggregate_id \notin DOMAIN agg_metadata
                          \/ key \notin DOMAIN agg_metadata[aggregate_id]
                  THEN "AggregateMetadataNotFound"
                  ELSE "none"
       IN  IF exc # "none"
           THEN /\ agg_metadata' = agg_metadata
                /\ call' = Frame("aggregate_metadata_delete", <<aggregate_id, key>>, exc,
                                 <<"store">>, <<req>>, <<>>,
                                 StoreRaised("aggregate_metadata_delete", exc))
           ELSE /\ agg_metadata' =
                       [agg_metadata EXCEPT ![aggregate_id] =
                           [k \in DOMAIN @ \ {key} |-> @[k]]]
                /\ call' = Frame("aggregate_metadata_delete", <<aggregate_id, key>>,
                                 "none", <<"store", "return">>, <<req>>, <<>>,
                                 Returned(None))

\* -------------------------------------------------------------- migrations

\* The ids a caller names; the table holds rows for some of them.
MigrationIds == {1, 2, 3}

MigrationStatuses == {Str("migrating"), Str("finished"), Str("confirmed")}

\* The migration a caller passes: its id and its own copy of the record,
\* which may be out of date.
MigrationArgs ==
    [id : MigrationIds, status : {Str("migrating"), Str("finished")},
     dest_compute : {Str("h1"), Str("h3")}]

\* db.migration_update: the values written over the row that has the id,
\* the row returned; MigrationNotFound when no row has it.
db_migration_update(id, values, fault) ==
    IF fault # "none" THEN [exc |-> fault, new |-> <<>>]
    ELSE IF id \notin DOMAIN migrations
    THEN [exc |-> "MigrationNotFound", new |-> <<>>]
    ELSE [exc |-> "none",
          new |-> [f \in DOMAIN migrations[id] \cup DOMAIN values |->
                      IF f \in DOMAIN values THEN values[f] ELSE migrations[id][f]]]

\* A variant that writes the caller's whole copy of the record with the new
\* status in it.
MigrationValuesWholeRecord(migration, status) ==
    [f \in DOMAIN migration \ {"id"} |-> IF f = "status" THEN status ELSE migration[f]]

\* The values migration_update hands to the store: {'status': status}.
MigrationValues(migration, status) == [status |-> status]

\* ConductorManager.migration_update
migration_update(migration, status, fault) ==
    /\ pc = "idle"
    /\ pc' = "done"
    /\ UNCHANGED <<instances, bdms, bw_usages, agg_metadata, hosts>>
    /\ LET a == <<migration, status>>
           values == MigrationValues(migration, status)
           r == db_migration_update(migration.id, values, fault)
           req == Req("migration_update", <<migration.id, values>>)
       IN  IF r.exc # "none"
           THEN /\ migrations' = migrations
                /\ call' = Frame("migration_update", a, r.exc, <<"store">>, <<req>>,
                                 <<>>, StoreRaised("migration_update", r.exc))
           ELSE /\ migrations' = [migrations EXCEPT ![migration.id] = r.new]
                /\ call' = Frame("migration_update", a, "none", <<"store", "return">>,
                                 <<req>>, <<>>, Returned(to_primitive(r.new)))

\* ------------------------------------------------------------ host updates

\* The hosts a request names; the compute API knows some of them.
HostNames == {"h1", "h2"}

\* The keys of a request body: the two settings, one of them written with
\* other case and surrounding blanks, and a key that is no setting.
BodyKeys == {"status", " Status ", "maintenance_mode", "power"}

\* The values of a request body: strings as the docstring of read_enabled
\* describes them, another string, and what a JSON body can also hold: null
\* and a number.
BodyValues == {Str(" Enable "), Str("disable"), Str("bogus"), None, Num("1")}

\* A request body in the order the dict iterates: pairs <<key, value>> with
\* distinct keys.
HostBodies ==
    UNION {{s \in [1..n -> BodyKeys \X BodyValues] : IsUpdateSet(s)} :
           n \in 0..MaxKeys}

PyTrue == [ty |-> "bool", v |-> "True"]

PyFalse == [ty |-> "bool", v |-> "False"]

\* dict([(k.strip().lower(), v) for k, v in body.iteritems()]): of the pairs
\* whose keys become the same key, the last one iterated stays.
params(body) ==
    [k \in {strip_lower(body[i][1]) : i \in 1..Len(body)} |->
        body[CHOOSE i \in 1..Len(body) :
                /\ strip_lower(body[i][1]) = k
                /\ \A j \in (i + 1)..Len(body) : strip_lower(body[j][1]) # k][2]]

\* params.pop(key, None)
pop(d, key) == IF key \in DOMAIN d THEN d[key] ELSE None

\* read_enabled: True for 'enable', False for 'disable', HTTPBadRequest for
\* any other string; a value that is no string has no strip().
read_enabled(orig_val) ==
    IF orig_val.ty # "str" THEN [exc |-> "AttributeError", val |-> None]
    ELSE LET val == strip_lower(orig_val.v)
         IN  IF val = "enable" THEN [exc |-> "none", val |-> PyTrue]
             ELSE IF val = "disable" THEN [exc |-> "none", val |-> PyFalse]
             ELSE [exc |-> "HTTPBadRequest", val |-> None]

\* The part of update that reads the body: the exception it raises ("none"
\* when the request passes) and the two settings, None for one not asked for.
ReadBody(body) ==
    LET p == params(body)
        orig_status == pop(p, "status")
        orig_maint_mode == pop(p, "maintenance_mode")
        rest == DOMAIN p \ {"status", "maintenance_mode"}
        status == IF IsNone(orig_status) THEN [exc |-> "none", val |-> None]
                  ELSE read_enabled(orig_status)
        maint_mode == IF IsNone(orig_maint_mode) THEN [exc |-> "none", val |-> None]
                      ELSE read_enabled(orig_maint_mode)
        exc == IF rest # {} THEN "HTTPBadRequest"
               ELSE IF status.exc # "none" THEN status.exc
               ELSE IF maint_mode.exc # "none" THEN maint_mode.exc
               ELSE IF IsNone(status.val) /\ IsNone(maint_mode.val) THEN "HTTPBadRequest"
               ELSE "none"
    IN  [exc |-> exc, status |-> status.val, maint_mode |-> maint_mode.val]

\* What the compute API can do besides answering: the driver does not
\* implement the operation, or answers with a text of its own.
HostApiFaults == {"none", "NotImplementedError", "BadResult"}

\* compute.HostAPI.set_host_enabled: the host as set and the state it is now
\* in; NotFound for a host the API does not know.
set_host_enabled(tbl, host_name, enabled, fault) ==
    IF fault = "NotImplementedError" THEN [exc |-> fault, result |-> None, hosts |-> tbl]
    ELSE IF host_name \notin DOMAIN tbl THEN [exc |-> "NotFound", result |-> None, hosts |-> tbl]
    ELSE IF fault = "BadResult" THEN [exc |-> "none", result |-> Str("driver error"), hosts |-> tbl]
    ELSE [exc |-> "none",
          result |-> IF enabled = PyTrue THEN Str("enabled") ELSE Str("disabled"),
          hosts |-> [tbl EXCEPT ![host_name].enabled = (enabled = PyTrue)]]

\* compute.HostAPI.set_host_maintenance, likewise.
set_host_maintenance(tbl, host_name, mode, fault) ==
    IF fault = "NotImplementedError" THEN [exc |-> fault, result |-> None, hosts |-> tbl]
    ELSE IF host_name \notin DOMAIN tbl THEN [exc |-> "NotFound", result |-> None, hosts |-> tbl]
    ELSE IF fault = "BadResult" THEN [exc |-> "none", result |-> Str("driver error"), hosts |-> tbl]
    ELSE [exc |-> "none",
          result |-> IF mode = PyTrue THEN Str("on_maintenance") ELSE Str("off_maintenance"),
          hosts |-> [tbl EXCEPT ![host_name].maintenance = (mode = PyTrue)]]

\* The except clauses and the result check of _set_enabled_status and
\* _set_host_maintenance: r is the API's answer, allowed the results the
\* wrapper lets through.
CheckedResult(r, allowed) ==
    IF r.exc = "NotImplementedError" THEN [r EXCEPT !.exc = "HTTPNotImplemented"]
    ELSE IF r.exc = "NotFound" THEN [r EXCEPT !.exc = "HTTPNotFound"]
    ELSE IF r.result \notin allowed THEN [r EXCEPT !.exc = "HTTPBadRequest"]
    ELSE r

\* HostController._set_enabled_status
set_enabled_status(tbl, host_name, enabled, fault) ==
    CheckedResult(set_host_enabled(tbl, host_name, enabled, fault),
                  {Str("enabled"), Str("disabled")})

\* HostController._set_host_maintenance
set_maintenance(tbl, host_name, mode, fault) ==
    CheckedResult(set_host_maintenance(tbl, host_name, mode, fault),
                  {Str("on_maintenance"), Str("off_maintenance")})

\* HostController.update; fault is what the compute API does on the call
\* numbered failAt of this request.
update(id, body, fault, failAt) ==
    /\ pc = "idle"
    /\ pc' = "done"
    /\ UNCHANGED <<instances, bdms, bw_usages, agg_metadata, migrations>>
    /\ LET a == <<id, body>>
           read == ReadBody(body)
           enable == ~IsNone(read.status)
           maintain == ~IsNone(read.maint_mode)
           r1 == set_enabled_status(hosts, id, read.status,
                                    IF failAt = 1 THEN fault ELSE "none")
           req1 == Req("set_host_enabled", <<id, read.status>>)
           tbl == IF enable THEN r1.hosts ELSE hosts
           r2 == set_maintenance(tbl, id, read.maint_mode,
                                 IF failAt = (IF enable THEN 2 ELSE 1) THEN fault
                                 ELSE "none")
           req2 == Req("set_host_maintenance", <<id, read.maint_mode>>)
           first == IF enable THEN <<req1>> ELSE <<>>
           result == [k \in {"host"} \cup (IF enable THEN {"status"} ELSE {})
                                     \cup (IF maintain THEN {"maintenance_mode"} ELSE {}) |->
                         IF k = "host" THEN Str(id)
                         ELSE IF k = "status" THEN r1.result ELSE r2.result]
       IN  IF read.exc # "none"
           THEN /\ hosts' = hosts
                /\ call' = Frame("update", a, "none", <<"validate">>, <<>>, <<>>,
                                 Raised(read.exc))
           ELSE IF enable /\ r1.exc # "none"
           THEN /\ hosts' = r1.hosts
                /\ call' = Frame("update", a, fault, <<"validate", "api">>, <<req1>>,
                                 <<>>, Raised(r1.exc))
           ELSE IF maintain /\ r2.exc # "none"
           THEN /\ hosts' = r2.hosts
                /\ call' = Frame("update", a, fault, <<"validate", "api">>,
                                 first \o <<req2>>, <<>>, Raised(r2.exc))
           ELSE /\ hosts' = (IF maintain THEN r2.hosts ELSE tbl)
                /\ call' = Frame("update", a, "none", <<"validate", "api", "return">>,
                                 first \o (IF maintain THEN <<req2>> ELSE <<>>), <<>>,
                                 Returned(result))

\* ------------------------------------------------------------------- Init

Init ==
    /\ instances = [u \in {"u1"} |-> [f \in InstanceFields |-> None]]
    /\ bdms = BdmRows
    /\ bw_usages = [k \in {BwKey("u1", "p1", "m1")} |->
                        [bw_in |-> Num("0"), bw_out |-> Num("0"),
                         last_ctr_in |-> Num("0"), last_ctr_out |-> Num("0"),
                         last_refreshed |-> Str("t1")]]
    /\ agg_metadata = [i \in {1} |-> [k \in {"a", "b"} |-> IF k = "a" THEN Str("0") ELSE Str("2")]]
    /\ migrations = [i \in {1, 2} |->
                         [status |-> Str("migrating"),
                          dest_compute |-> IF i = 1 THEN Str("h1") ELSE Str("h2")]]
    /\ hosts = [h \in {"h1"} |-> [enabled |-> TRUE, maintenance |-> FALSE]]
    /\ pc = "idle"
    /\ call = NoCall

\* One invocation of any operation of the facade, with any arguments, on the
\* store as set up, the store answering or failing in any way.
Next ==
    \/ \E u \in InstanceUuids, s \in UpdateSets, f \in FaultChoices :
          instance_update(u, s, f)
    \/ \E u \in InstanceUuids, f \in FaultChoices : instance_destroy(u, f)
    \/ \E b \in BdmListArgs, i \in InstanceArgs, v \in VolumeArgs, d \in DeviceArgs,
          f \in FaultChoices, n \in BdmIds :
          block_device_mapping_destroy(b, i, v, d, f, n)
    \/ \E r \in BdmRows, c \in CreateArgs, f \in FaultChoices :
          block_device_mapping_update_or_create(r, c, f)
    \/ \E m \in BwMacs, i, o, ci, co \in CounterArgs, r \in RefreshedArgs,
          f \in FaultChoices, n \in 1..2, g \in 0..1 :
          bw_usage_update("u1", m, "p1", i, o, ci, co, r, f, n, g)
    \/ \E i \in AggregateIds, m \in MetadataArgs, d \in SetDeleteArgs,
          f \in FaultChoices :
          aggregate_metadata_add(i, m, d, f)
    \/ \E i \in AggregateIds, k \in MetadataKeys, f \in FaultChoices :
          aggregate_metadata_delete(i, k, f)
    \/ \E t \in TopicArgs, h \in HostArgs, f \in FaultChoices :
          service_get_all_by(t, h, f)
    \/ \E m \in MigrationArgs, st \in MigrationStatuses, f \in FaultChoices :
          migration_update(m, st, f)
    \/ \E op \in PassThroughOps, f \in FaultChoices : pass_through(op, f)
    \/ \E op \in NoStoreOps : no_store(op)

Spec == Init /\ [][Next]_vars

\* Callers updating instances, one call after another.
NextInstance ==
    \/ \E u \in InstanceUuids, s \in UpdateSets, f \in FamilyFaults :
          instance_update(u, s, f)
    \/ Return

SpecInstance == Init /\ [][NextInstance]_vars

\* Callers creating and destroying block device mappings.
NextBdm ==
    \/ \E b \in BdmListArgs, i \in InstanceArgs, v \in VolumeArgs, d \in DeviceArgs,
          f \in FamilyFaults, n \in BdmIds :
          block_device_mapping_destroy(b, i, v, d, f, n)
    \/ \E r \in BdmRows, c \in CreateArgs, f \in FamilyFaults :
          block_device_mapping_update_or_create(r, c, f)
    \/ Return

SpecBdm == Init /\ [][NextBdm]_vars

\* Callers reporting and reading bandwidth usage, the store answering.
NextBw ==
    \/ \E m \in BwMacs, i, o, ci, co \in CounterArgs, r \in RefreshedArgs,
          g \in 0..1 :
          bw_usage_update("u1", m, "p1", i, o, ci, co, r, "none", 1, g)
    \/ Return

SpecBw == Init /\ [][NextBw]_vars

\* Callers setting aggregate metadata.
NextAggregate ==
    \/ \E i \in AggregateIds, m \in MetadataArgs, d \in SetDeleteArgs,
          f \in FamilyFaults :
          aggregate_metadata_add(i, m, d, f)
    \/ Return

SpecAggregate == Init /\ [][NextAggregate]_vars

\* Callers moving migrations from one status to another.
NextMigration ==
    \/ \E m \in MigrationArgs, st \in MigrationStatuses, f \in FamilyFaults :
          migration_update(m, st, f)
    \/ Return

SpecMigration == Init /\ [][NextMigration]_vars

\* Operators enabling hosts and putting them in maintenance through the
\* hosts API, one request after another.
NextHosts ==
    \/ \E id \in HostNames, b \in HostBodies, f \in HostApiFaults, n \in 1..2 :
          update(id, b, f, n)
    \/ Return

SpecHosts == Init /\ [][NextHosts]_vars

\* ------------------------------------------------------------------ claims

Done(op) == pc = "done" /\ call.op = op

\* The keys and values of the update set a finished instance_update was sent.
SentKeys == {call.args[2][i][1] : i \in 1..Len(call.args[2])}

SentValue(key) == AsDict(call.args[2])[key]

\* The update set a finished instance_update handed to the store.
HandedToStore == call.reqs[1].args[2]

\* C1: an instance_update whose update set holds a key outside the allow-list,
\* whatever its other keys and their order, fails with an error of the
\* InvalidArgument kind, issues no store request, sends no notification and
\* leaves the store as it was.
C1_DisallowedKeyRejected ==
    (Done("instance_update") /\ \E k \in SentKeys : k \notin allowed_updates)
    => /\ call.outcome.status = "error"
       /\ ErrorKind(call.outcome.exc) = "InvalidArgument"
       /\ call.reqs = <<>>
       /\ call.notes = <<>>
       /\ store = call.pre

\* C1's case: a valid temporal key is coerced first, then the disallowed key
\* is met and the call ends in KeyError.
C1_Witness ==
    /\ Done("instance_update")
    /\ call.args[2] = <<<<"launched_at", StrGoodTime>>, <<"id", DateObj>>>>
    /\ call.outcome.exc = "KeyError"

\* C7 as claimed: keys are lower-cased and trimmed before the lookup, so an
\* update set whose keys all normalise to allowed names is never refused
\* for a key.
C7_KeysNormalisedBeforeLookup ==
    (Done("instance_update") /\ \A k \in SentKeys : strip_lower(k) \in allowed_updates)
    => call.outcome.exc # "KeyError"

\* C7, amended: keys are compared exactly as sent. A key that differs from an
\* allowed name only by case or surrounding blanks is refused like any other
\* unknown key (KeyError when it is the first key met), nothing reaches the
\* store, and an accepted update set reaches the store under the very keys
\* the caller sent.
C7_KeysComparedExactly ==
    /\ (Done("instance_update")
        /\ \E k \in SentKeys : k \notin allowed_updates /\ strip_lower(k) \in allowed_updates)
       => /\ call.outcome.status = "error"
          /\ call.reqs = <<>>
          /\ (call.args[2][1][1] \notin allowed_updates => call.outcome.exc = "KeyError")
    /\ (Done("instance_update") /\ call.reqs # <<>>)
       => DOMAIN HandedToStore = SentKeys /\ SentKeys \subseteq allowed_updates

\* C7's case: ' VM_State ' alone, with a harmless value, is refused.
C7_Witness ==
    /\ Done("instance_update")
    /\ call.args[2] = <<<<" VM_State ", DateObj>>>>
    /\ call.outcome.exc = "KeyError"
    /\ call.reqs = <<>>

\* C8: in instance_update, a string under launched_at or terminated_at reaches
\* the store as the datetime it parses to, any other value and any other
\* key's value reaches it unchanged; a string that does not parse makes the
\* call fail with an InvalidArgument-kind error the caller sees (ValueError
\* when every key is allowed) and no store request is made.
C8_TemporalCoercion ==
    /\ (Done("instance_update") /\ call.reqs # <<>>)
       => \A k \in SentKeys :
             HandedToStore[k] =
                IF k \in {"launched_at", "terminated_at"} /\ SentValue(k).ty = "str"
                THEN [ty |-> "datetime", v |-> SentValue(k).v]
                ELSE SentValue(k)
    /\ (Done("instance_update")
        /\ \E k \in SentKeys \cap {"launched_at", "terminated_at"} :
              SentValue(k).ty = "str" /\ SentValue(k).v \notin WellFormedTimes)
       => /\ call.outcome.status = "error"
          /\ ErrorKind(call.outcome.exc) = "InvalidArgument"
          /\ (SentKeys \subseteq allowed_updates => call.outcome.exc = "ValueError")
          /\ call.reqs = <<>>
          /\ store = call.pre

\* C8's case: a string and a datetime object under the two temporal keys,
\* accepted and written.
C8_Witness ==
    /\ Done("instance_update")
    /\ call.args[2] = <<<<"terminated_at", StrGoodTime>>, <<"launched_at", DateObj>>>>
    /\ call.outcome.status = "ok"
    /\ HandedToStore["terminated_at"] = [ty |-> "datetime", v |-> StrGoodTime.v]
    /\ instances["u1"]["launched_at"] = DateObj

\* The block_device_mapping table before the finished invocation.
PreBdms == call.pre[2]

\* The selector shapes a finished block_device_mapping_destroy was given.
ShapeList == ~IsNone(call.args.bdms)

ShapeVolume == ~IsNone(call.args.instance) /\ ~IsNone(call.args.volume_id)

ShapeDevice == ~IsNone(call.args.instance) /\ ~IsNone(call.args.device_name)

NumShapes ==
    (IF ShapeList THEN 1 ELSE 0) + (IF ShapeVolume THEN 1 ELSE 0)
    + (IF ShapeDevice THEN 1 ELSE 0)

\* The rows each shape targets.
TargetedByList ==
    {r \in PreBdms : \E i \in 1..Len(call.args.bdms.ids) : call.args.bdms.ids[i] = r.id}

TargetedByVolume ==
    {r \in PreBdms : r.instance_uuid = call.args.instance.v
                     /\ r.volume_id = call.args.volume_id.v}

TargetedByDevice ==
    {r \in PreBdms : r.instance_uuid = call.args.instance.v
                     /\ r.device_name = call.args.device_name.v}

BdmRejected ==
    /\ call.outcome.status = "error"
    /\ call.outcome.exc = "Invalid"
    /\ ErrorKind(call.outcome.exc) = "InvalidArgument"
    /\ call.reqs = <<>>
    /\ bdms = PreBdms

\* C2 as claimed: with the store answering, block_device_mapping_destroy
\* fails with Invalid and deletes nothing unless exactly one selector shape
\* is populated, and then it succeeds and removes the rows of that shape.
C2_ExactlyOneShapeOrInvalid ==
    (Done("block_device_mapping_destroy") /\ call.fault = "none")
    => IF NumShapes # 1 THEN BdmRejected
       ELSE /\ call.outcome.status = "ok"
            /\ bdms = PreBdms \ (IF ShapeList THEN TargetedByList
                                 ELSE IF ShapeVolume THEN TargetedByVolume
                                 ELSE TargetedByDevice)

\* C2, amended: the shapes are tried in the order mappings list,
\* instance+volume, instance+device_name, and the first populated one is
\* used, the others ignored. With the store answering the call then succeeds
\* and removes exactly the rows that shape targets; with no shape populated
\* it fails with Invalid (an InvalidArgument) before any store request and
\* deletes nothing.
C2_FirstPopulatedShapeWins ==
    (Done("block_device_mapping_destroy") /\ call.fault = "none")
    => IF NumShapes = 0 THEN BdmRejected
       ELSE /\ call.outcome.status = "ok"
            /\ call.outcome.value = None
            /\ bdms = PreBdms \ (IF ShapeList THEN TargetedByList
                                 ELSE IF ShapeVolume THEN TargetedByVolume
                                 ELSE TargetedByDevice)

\* C2's case: a list naming row 1 together with instance u1 and volume v1
\* (which rows 1 and 2 attach): the call succeeds and only row 1 goes.
C2_Witness ==
    /\ Done("block_device_mapping_destroy")
    /\ call.args.bdms = [ty |-> "list", ids |-> <<1>>]
    /\ call.args.instance.v = "u1"
    /\ call.args.volume_id = Str("v1")
    /\ PreBdms = BdmRows
    /\ call.outcome.status = "ok"
    /\ bdms = BdmRows \ {BdmRow(1)}

\* The bandwidth table before the finished invocation, and the reading it
\* held for the key the invocation names.
PreBw == call.pre[3]

ExistingReading ==
    IF <<call.args.uuid, call.args.start_period, call.args.mac>> \in DOMAIN PreBw
    THEN PreBw[<<call.args.uuid, call.args.start_period, call.args.mac>>]
    ELSE None

CounterPresent ==
    \E x \in {call.args.bw_in, call.args.bw_out, call.args.last_ctr_in,
              call.args.last_ctr_out} : x.ty # "NoneType"

IssuedWrite == \E i \in 1..Len(call.reqs) : call.reqs[i].fn = "bw_usage_update"

\* C3: bw_usage_update issues the store write exactly when one of bw_in,
\* bw_out, last_ctr_in, last_ctr_out is present (last_refreshed does not
\* count); with all four absent it issues the read alone, leaves the store
\* as it was and returns the reading the store held for (uuid, start_period,
\* mac), or None when it held none.
C3_WriteIffCounterPresent ==
    Done("bw_usage_update")
    => /\ IssuedWrite <=> CounterPresent
       /\ ~CounterPresent
          => /\ Len(call.reqs) = 1
             /\ call.reqs[1] = Req("bw_usage_get",
                                   <<call.args.uuid, call.args.start_period,
                                     call.args.mac>>)
             /\ store = call.pre
             /\ call.fault = "none"
                => /\ call.outcome.status = "ok"
                   /\ call.outcome.value = ExistingReading

\* C3's case: only last_refreshed is given, for a key that holds a reading:
\* nothing is written and that reading is returned.
C3_Witness ==
    /\ Done("bw_usage_update")
    /\ ~CounterPresent
    /\ call.args.last_refreshed = Str("t1")
    /\ call.args.mac = "m1"
    /\ call.reqs[1].fn = "bw_usage_get"
    /\ call.outcome.value = PreBw[<<"u1", "p1", "m1">>]
    /\ store = call.pre

\* The metadata the aggregate of the finished invocation held before it.
PreMetadata == call.pre[4][call.args.aggregate]

\* C10: aggregate_metadata_add forwards the metadata and the replace flag
\* (false when left out) to the store in one request; with the flag true the
\* aggregate's metadata afterwards is exactly the mapping supplied, with it
\* false every key held before and not supplied keeps its old value and the
\* supplied keys take the supplied values; other aggregates are untouched.
C10_SetDeleteSemantics ==
    (Done("aggregate_metadata_add") /\ call.outcome.status = "ok")
    => LET id == call.args.aggregate
           m == call.args.metadata
           now == agg_metadata[id]
       IN  /\ call.reqs = <<Req("aggregate_metadata_add",
                                <<id, m, IF call.args.set_delete = "True"
                                         THEN "True" ELSE "False">>)>>
           /\ \A j \in DOMAIN agg_metadata \ {id} : agg_metadata[j] = call.pre[4][j]
           /\ IF call.args.set_delete = "True"
              THEN now = m
              ELSE /\ DOMAIN now = DOMAIN PreMetadata \cup DOMAIN m
                   /\ \A k \in DOMAIN PreMetadata \ DOMAIN m : now[k] = PreMetadata[k]
                   /\ \A k \in DOMAIN m : now[k] = m[k]

\* C10's case: {a: 1} replaces {a: 0, b: 2} and b is gone.
C10_Witness ==
    /\ Done("aggregate_metadata_add")
    /\ call.args.set_delete = "True"
    /\ call.args.aggregate = 1
    /\ call.pre[4][1] = [k \in {"a", "b"} |-> IF k = "a" THEN Str("0") ELSE Str("2")]
    /\ call.args.metadata = [k \in {"a"} |-> Str("1")]
    /\ agg_metadata[1] = [k \in {"a"} |-> Str("1")]

\* An optional string argument is given: not None and not empty.
Given(x) == x.ty # "NoneType" /\ x.v # ""

\* C4: service_get_all_by issues exactly one store query, chosen by which of
\* topic and host are given (None and '' count as not given): neither -> all
\* services; both and topic 'compute' -> compute by host; both otherwise ->
\* by host and topic; topic alone -> by topic; host alone -> by host. With the
\* store answering, that query's result is returned (normalized).
C4_ServiceDispatch ==
    Done("service_get_all_by")
    => LET t == call.args.topic
           h == call.args.host
           q == CASE ~Given(t) /\ ~Given(h) -> Req("service_get_all", <<>>)
                  [] Given(t) /\ Given(h) /\ t.v = "compute" ->
                         Req("service_get_all_compute_by_host", <<h.v>>)
                  [] Given(t) /\ Given(h) /\ t.v # "compute" ->
                         Req("service_get_by_host_and_topic", <<h.v, t.v>>)
                  [] Given(t) /\ ~Given(h) -> Req("service_get_all_by_topic", <<t.v>>)
                  [] ~Given(t) /\ Given(h) -> Req("service_get_all_by_host", <<h.v>>)
       IN  /\ call.reqs = <<q>>
           /\ call.fault = "none"
              => /\ call.outcome.status = "ok"
                 /\ call.outcome.value = [ty |-> "dict", v |-> q.fn]

\* C4's case: topic 'compute' and host 'h1' take the compute-by-host query.
C4_Witness ==
    /\ Done("service_get_all_by")
    /\ call.args.topic = Str("compute")
    /\ call.args.host = Str("h1")
    /\ call.reqs[1].fn = "service_get_all_compute_by_host"
    /\ call.outcome.status = "ok"

\* C5: whenever a store request of any operation raises, the caller gets an
\* error, never a result: the raised kind itself when the operation declares
\* it, an opaque internal error otherwise.
C5_StoreFailureSurfaces ==
    (pc = "done" /\ call.fault # "none")
    => /\ call.outcome.status = "error"
       /\ call.outcome.exc = IF call.fault \in client_exceptions(call.op)
                             THEN call.fault ELSE "InternalError"

\* C5's case: migration_get meets InstanceNotFound, a kind other handlers
\* declare and it does not.
C5_Witness ==
    /\ Done("migration_get")
    /\ call.fault = "InstanceNotFound"
    /\ call.outcome.exc = "InternalError"

\* C6: a successful instance_update validates, makes exactly one store
\* request (the read-modify-write), sends exactly one notification carrying
\* the row before and the row after that the store returned, and returns the
\* normalized row after, in this order; a failed instance_update and every
\* other operation send no notification.
C6_UpdateOrderAndNotification ==
    pc = "done"
    => IF call.op = "instance_update" /\ call.outcome.status = "ok"
       THEN /\ call.trace = <<"validate", "store", "notify", "return">>
            /\ Len(call.reqs) = 1
            /\ call.reqs[1].fn = "instance_update_and_get_original"
            /\ call.notes = <<[old |-> call.pre[1][call.args[1]],
                               new |-> instances[call.args[1]]]>>
            /\ \A k \in DOMAIN HandedToStore :
                  instances[call.args[1]][k] = HandedToStore[k]
            /\ call.outcome.value =
                  [f \in DOMAIN instances[call.args[1]] |->
                      to_primitive_value(instances[call.args[1]][f])]
       ELSE call.notes = <<>>

\* C6's case: an update that changes the row: the notification carries two
\* different rows.
C6_Witness ==
    /\ Done("instance_update")
    /\ call.outcome.status = "ok"
    /\ Len(call.notes) = 1
    /\ call.notes[1].old # call.notes[1].new
    /\ call.outcome.value["launched_at"] = StrGoodTime

\* C9 as claimed: an invocation issues at most one store request, no other
\* caller's request is served between two of its own, and an invocation that
\* fails leaves the store as it found it.
C9_OneAtomicStoreRequest ==
    pc = "done"
    => /\ Len(call.reqs) <= 1
       /\ call.foreign = 0
       /\ call.outcome.status = "error" => store = call.pre

\* A value in wire-safe primitive shape: no store-layer object and no
\* datetime in it, so to_primitive leaves it as it is.
WireSafe(value) ==
    IF "ty" \in DOMAIN value THEN value.ty \notin {"model", "datetime"}
    ELSE \A f \in DOMAIN value : value[f].ty \notin {"model", "datetime"}

\* C11 as claimed: whatever a facade operation returns is the output of
\* to_primitive: no operation, action_event_start and action_event_finish
\* included, hands a raw store-layer object back to its caller.
C11_ReturnsOnlyNormalised ==
    (pc = "done" /\ call.outcome.status = "ok")
    => /\ WireSafe(call.outcome.value)
       /\ call.outcome.value = to_primitive(call.outcome.value)

\* The migrations table as a finished invocation found it.
PreMigrations == call.pre[5]

\* C12: a migration_update either finds no record with the migration's id,
\* fails with MigrationNotFound (a NotFound) and leaves the store as it was,
\* or sets the status of that record to the given one, leaves every other
\* field of it, every other migration record and every other table as they
\* were, and returns the updated record; the table gains and loses no record.
\* When the store itself breaks down the call fails with an internal error
\* and the store is as it was.
C12_OnlyStatusOfThatRecord ==
    Done("migration_update")
    => LET id == call.args[1].id
       IN  IF call.fault \notin {"none", "MigrationNotFound"}
           THEN /\ call.outcome = Raised("InternalError")
                /\ store = call.pre
           ELSE IF id \notin DOMAIN PreMigrations
           THEN /\ call.outcome = Raised("MigrationNotFound")
                /\ ErrorKind(call.outcome.exc) = "NotFound"
                /\ store = call.pre
           ELSE /\ call.outcome.status = "ok"
                /\ DOMAIN migrations = DOMAIN PreMigrations
                /\ migrations[id].status = call.args[2]
                /\ \A f \in DOMAIN PreMigrations[id] \ {"status"} :
                      migrations[id][f] = PreMigrations[id][f]
                /\ DOMAIN migrations[id] = DOMAIN PreMigrations[id]
                /\ \A j \in DOMAIN migrations \ {id} : migrations[j] = PreMigrations[j]
                /\ <<instances, bdms, bw_usages, agg_metadata, hosts>> =
                      <<call.pre[1], call.pre[2], call.pre[3], call.pre[4], call.pre[6]>>
                /\ call.outcome.value = to_primitive(migrations[id])

\* C12's case: a caller whose copy of the record is out of date sets a new
\* status on a record that exists, beside another record.
C12_Witness ==
    /\ Done("migration_update")
    /\ call.outcome.status = "ok"
    /\ call.args[1].id = 1
    /\ call.args[1].dest_compute # PreMigrations[1].dest_compute
    /\ PreMigrations[1].status = Str("finished")
    /\ migrations[1].status = Str("confirmed")
    /\ 2 \in DOMAIN migrations

\* C12's failing case: no record has the id.
C12_WitnessNotFound ==
    /\ Done("migration_update")
    /\ call.args[1].id = 3
    /\ call.outcome.status = "error"
    /\ call.fault = "MigrationNotFound"

\* The body a finished update was sent, and the values it gives a setting
\* under any spelling of the key.
SentBody == call.args[2]

ValuesGiven(setting) ==
    {SentBody[i][2] : i \in {j \in 1..Len(SentBody) : strip_lower(SentBody[j][1]) = setting}}

\* 'enable' or 'disable', in any case and with blanks around it.
IsEnableOrDisable(value) ==
    value.ty = "str" /\ strip_lower(value.v) \in {"enable", "disable"}

\* A body the request must be refused for: a key that is no setting, a
\* setting with a value other than enable / disable, or no setting at all.
BodyRefusable ==
    \/ \E i \in 1..Len(SentBody) :
          strip_lower(SentBody[i][1]) \notin {"status", "maintenance_mode"}
    \/ \E v \in ValuesGiven("status") \cup ValuesGiven("maintenance_mode") :
          ~IsEnableOrDisable(v)
    \/ ValuesGiven("status") \cup ValuesGiven("maintenance_mode") = {}

\* The compute API calls a finished update made, in order.
ApiCalls == [i \in 1..Len(call.reqs) |-> call.reqs[i].fn]

\* The calls the settings of the body ask for, in the order claimed.
CallsAskedFor ==
    (IF ValuesGiven("status") # {} THEN <<"set_host_enabled">> ELSE <<>>)
    \o (IF ValuesGiven("maintenance_mode") # {} THEN <<"set_host_maintenance">> ELSE <<>>)

\* C13 as claimed: an update whose body has a key other than status and
\* maintenance_mode (keys trimmed and lower-cased), a status or
\* maintenance_mode value other than enable / disable (trimmed, in any case),
\* or neither key, fails with bad-request without a call to set_host_enabled
\* or set_host_maintenance and leaves the hosts as they were; any other
\* update calls set_host_enabled, if status is given, before
\* set_host_maintenance, if maintenance_mode is given, stopping at the first
\* call that fails, and a result it returns carries only enabled / disabled as
\* status and on_maintenance / off_maintenance as maintenance_mode.
C13_ValidatedBeforeAnyHostCall ==
    Done("update")
    => IF BodyRefusable
       THEN /\ call.outcome = Raised("HTTPBadRequest")
            /\ call.reqs = <<>>
            /\ hosts = call.pre[6]
       ELSE /\ Len(call.reqs) <= Len(CallsAskedFor)
            /\ ApiCalls = SubSeq(CallsAskedFor, 1, Len(call.reqs))
            /\ call.outcome.status = "ok"
               => /\ ApiCalls = CallsAskedFor
                  /\ \A k \in DOMAIN call.outcome.value :
                        call.outcome.value[k] \in
                            CASE k = "status" -> {Str("enabled"), Str("disabled")}
                              [] k = "maintenance_mode" ->
                                     {Str("on_maintenance"), Str("off_maintenance")}
                              [] OTHER -> {Str(call.args[1])}

====
